---- MODULE Spec2Model ----
(***************************************************************************)
(* Model of src/task/08-objects-tasks.js: the css selector builder         *)
(* (class Selector and the cssSelectorBuilder facade), and Rectangle with  *)
(* getJSON and fromJSON.                                                   *)
(*                                                                         *)
(* JavaScript objects live on a heap.  A Selector holds a REFERENCE to its *)
(* items array, so the arrays are modelled as a heap of their own: two     *)
(* selectors share fragments exactly when they hold the same array ref.    *)
(* The item objects { type, value } are never written after they are made, *)
(* so an array holds them as values.                                       *)
(*                                                                         *)
(* A call is an operator from the heap it finds to its completion: the     *)
(* heap it leaves and what it returns or throws.  A call that throws, and  *)
(* stringify, return no selector; what they answer is read from the        *)
(* operator at the state they are made in.                                 *)
(***************************************************************************)
EXTENDS Integers, Sequences, FiniteSets, TLC

VARIABLES
    arrays,     \* heap of arrays: arrays[r] is the sequence of items of array r
    selectors,  \* heap of Selector objects: [items |-> array ref, touched |-> ...]
    history,    \* per selector: how it was made and the appends that succeeded on it
    last,       \* the last call that returned a selector, with the heap it found
    objects,    \* heap of plain objects: [own |-> its properties, proto |-> ...]
    prototype,  \* the properties of the object Rectangle.prototype
    created     \* per object, the call that returned it and its arguments

builderVars == <<arrays, selectors, history, last>>
rectangleVars == <<objects, prototype, created>>
vars == <<arrays, selectors, history, last, objects, prototype, created>>

(* ------------------------------ bounds --------------------------------- *)

\* the appends that succeed in one run (each facade call makes one of them)
MaxAppends == 3

\* the references that name the selectors made in one run: two operands and
\* their combination, or a builder, a combination and a combination of that
SelectorRefs == {1, 2, 3}

Values == {"a"}
Combinators == {"+"}

\* a second, narrower run that tells the values of equal fragments apart
MaxTextAppends == 3
TextRefs == {1, 2}
TextValues == {"a", "b"}

\* the objects made in one run of the Rectangle functions, and their sides
MaxObjects == 3
Sides == {2, 3}

Main == [values |-> Values, refs |-> SelectorRefs, appends |-> MaxAppends]
Text == [values |-> TextValues, refs |-> TextRefs, appends |-> MaxTextAppends]

(* --------------------------- program values ---------------------------- *)

Undefined == 0          \* a missing constructor argument
NoError == ""

DuplicateError == "Element, id and pseudo-element should not occur more then one time inside the selector"
OrderError == "Selector parts should be arranged in the following order: element, id, class, attribute, pseudo-class, pseudo-element"

\* fault: the ranks of id and class exchanged
order_swapped == [element |-> 1, id |-> 3, class |-> 2, attr |-> 4,
                  pseudoClass |-> 5, pseudoElement |-> 6]

\* this.order, set by the constructor (the same table in every instance)
order == [element |-> 1, id |-> 2, class |-> 3, attr |-> 4,
          pseudoClass |-> 5, pseudoElement |-> 6]

\* this.order[type]: a property lookup, <<>> standing for undefined
Lookup(type) == IF type \in DOMAIN order THEN <<order[type]>> ELSE <<>>

\* JavaScript's x > y on numbers-or-undefined: false when either is undefined
GT(x, y) == x # <<>> /\ y # <<>> /\ x[1] > y[1]

Heap == [arrays |-> arrays, selectors |-> selectors]

\* completion records of a call: it returns (a selector ref or a string) or throws
Return(h, ref) == [heap |-> h, threw |-> NoError, ret |-> ref, text |-> ""]
ReturnText(h, str) == [heap |-> h, threw |-> NoError, ret |-> 0, text |-> str]
Throw(h, msg) == [heap |-> h, threw |-> msg, ret |-> 0, text |-> ""]

Items(h, this) == h.arrays[h.selectors[this].items]

(* ------------------------------ Selector ------------------------------- *)

\* fault: one default array, made by the first call, serves every later one
constructor_sharedDefault(h, items) ==
    LET h1 == IF items = Undefined /\ h.arrays = <<>>
              THEN [h EXCEPT !.arrays = Append(@, <<>>)]
              ELSE h
        ref == IF items = Undefined THEN 1 ELSE items
        obj == [items |-> ref,
                touched |-> [element |-> FALSE, id |-> FALSE, pseudoElement |-> FALSE]]
    IN  Return([h1 EXCEPT !.selectors = Append(@, obj)], Len(h1.selectors) + 1)

\* new Selector(items)
constructor(h, items) ==
    LET h1 == IF items = Undefined
              THEN [h EXCEPT !.arrays = Append(@, <<>>)]
              ELSE h
        ref == IF items = Undefined THEN Len(h1.arrays) ELSE items
        obj == [items |-> ref,
                touched |-> [element |-> FALSE, id |-> FALSE, pseudoElement |-> FALSE]]
    IN  Return([h1 EXCEPT !.selectors = Append(@, obj)], Len(h1.selectors) + 1)

\* array.push(item), in place
push(h, ref, item) == [h EXCEPT !.arrays[ref] = Append(@, item)]

\* fault: only the last item is compared
checkOrder_lastOnly(h, this, orderType) ==
    IF /\ Items(h, this) # <<>>
       /\ GT(Lookup(Items(h, this)[Len(Items(h, this))].type), Lookup(orderType))
    THEN OrderError
    ELSE NoError

\* fault: only the items after the last combinator are compared
checkOrder_afterCombinator(h, this, orderType) ==
    IF \E i \in DOMAIN Items(h, this) :
           /\ \A j \in i..Len(Items(h, this)) : Items(h, this)[j].type # "combinator"
           /\ GT(Lookup(Items(h, this)[i].type), Lookup(orderType))
    THEN OrderError
    ELSE NoError

\* fault: >= in place of >
checkOrder_ge(h, this, orderType) ==
    IF \E i \in DOMAIN Items(h, this) :
           \/ GT(Lookup(Items(h, this)[i].type), Lookup(orderType))
           \/ /\ Lookup(orderType) # <<>>
              /\ Lookup(Items(h, this)[i].type) = Lookup(orderType)
    THEN OrderError
    ELSE NoError

\* checkOrder(orderType): the error it throws, or NoError
checkOrder(h, this, orderType) ==
    IF \E i \in DOMAIN Items(h, this) :
           GT(Lookup(Items(h, this)[i].type), Lookup(orderType))
    THEN OrderError
    ELSE NoError

\* fault: touched.element is set before the order is checked
element_marksFirst(h, this, value) ==
    IF h.selectors[this].touched.element THEN Throw(h, DuplicateError)
    ELSE LET h1 == [h EXCEPT !.selectors[this].touched.element = TRUE]
         IN  IF checkOrder(h1, this, "element") # NoError
             THEN Throw(h1, checkOrder(h1, this, "element"))
             ELSE Return(push(h1, h1.selectors[this].items,
                              [type |-> "element", value |-> value]), this)

\* fault: touched.element is never set
element_unmarked(h, this, value) ==
    IF h.selectors[this].touched.element THEN Throw(h, DuplicateError)
    ELSE IF checkOrder(h, this, "element") # NoError
         THEN Throw(h, checkOrder(h, this, "element"))
    ELSE Return(push(h, h.selectors[this].items,
                     [type |-> "element", value |-> value]), this)

Selector_element(h, this, value) ==
    IF h.selectors[this].touched.element THEN Throw(h, DuplicateError)
    ELSE IF checkOrder(h, this, "element") # NoError
         THEN Throw(h, checkOrder(h, this, "element"))
    ELSE LET h1 == [h EXCEPT !.selectors[this].touched.element = TRUE]
             h2 == push(h1, h1.selectors[this].items,
                        [type |-> "element", value |-> value])
         IN  Return(h2, this)

\* fault: touched.id is never set
id_unmarked(h, this, value) ==
    IF h.selectors[this].touched.id THEN Throw(h, DuplicateError)
    ELSE IF checkOrder(h, this, "id") # NoError
         THEN Throw(h, checkOrder(h, this, "id"))
    ELSE Return(push(h, h.selectors[this].items,
                     [type |-> "id", value |-> "#" \o value]), this)

\* fault: the order is checked before touched.id is tested
id_orderFirst(h, this, value) ==
    IF checkOrder(h, this, "id") # NoError
    THEN Throw(h, checkOrder(h, this, "id"))
    ELSE IF h.selectors[this].touched.id THEN Throw(h, DuplicateError)
    ELSE LET h1 == [h EXCEPT !.selectors[this].touched.id = TRUE]
             h2 == push(h1, h1.selectors[this].items,
                        [type |-> "id", value |-> "#" \o value])
         IN  Return(h2, this)

Selector_id(h, this, value) ==
    IF h.selectors[this].touched.id THEN Throw(h, DuplicateError)
    ELSE IF checkOrder(h, this, "id") # NoError
         THEN Throw(h, checkOrder(h, this, "id"))
    ELSE LET h1 == [h EXCEPT !.selectors[this].touched.id = TRUE]
             h2 == push(h1, h1.selectors[this].items,
                        [type |-> "id", value |-> "#" \o value])
         IN  Return(h2, this)

\* fault: class is pushed without checkOrder
class_unchecked(h, this, value) ==
    Return(push(h, h.selectors[this].items,
                [type |-> "class", value |-> "." \o value]), this)

Selector_class(h, this, value) ==
    IF checkOrder(h, this, "class") # NoError
    THEN Throw(h, checkOrder(h, this, "class"))
    ELSE Return(push(h, h.selectors[this].items,
                     [type |-> "class", value |-> "." \o value]), this)

Selector_attr(h, this, value) ==
    IF checkOrder(h, this, "attr") # NoError
    THEN Throw(h, checkOrder(h, this, "attr"))
    ELSE Return(push(h, h.selectors[this].items,
                     [type |-> "attr", value |-> "[" \o value \o "]"]), this)

Selector_pseudoClass(h, this, value) ==
    IF checkOrder(h, this, "pseudoClass") # NoError
    THEN Throw(h, checkOrder(h, this, "pseudoClass"))
    ELSE Return(push(h, h.selectors[this].items,
                     [type |-> "pseudoClass", value |-> ":" \o value]), this)

\* fault: touched.pseudoElement is never set
pseudoElement_unmarked(h, this, value) ==
    IF h.selectors[this].touched.pseudoElement THEN Throw(h, DuplicateError)
    ELSE IF checkOrder(h, this, "pseudoElement") # NoError
         THEN Throw(h, checkOrder(h, this, "pseudoElement"))
    ELSE Return(push(h, h.selectors[this].items,
                     [type |-> "pseudoElement", value |-> "::" \o value]), this)

Selector_pseudoElement(h, this, value) ==
    IF h.selectors[this].touched.pseudoElement THEN Throw(h, DuplicateError)
    ELSE IF checkOrder(h, this, "pseudoElement") # NoError
         THEN Throw(h, checkOrder(h, this, "pseudoElement"))
    ELSE LET h1 == [h EXCEPT !.selectors[this].touched.pseudoElement = TRUE]
             h2 == push(h1, h1.selectors[this].items,
                        [type |-> "pseudoElement", value |-> "::" \o value])
         IN  Return(h2, this)

\* fault: join() with its default separator
RECURSIVE join_comma(_)
join_comma(items) ==
    IF items = <<>> THEN ""
    ELSE IF Len(items) = 1 THEN items[1].value
    ELSE items[1].value \o "," \o join_comma(Tail(items))

\* items.map(item => item.value).join('')
RECURSIVE join(_)
join(items) ==
    IF items = <<>> THEN "" ELSE items[1].value \o join(Tail(items))

\* fault: the items are shifted out of this.items as they are joined
stringify_draining(h, this) ==
    ReturnText([h EXCEPT !.arrays[h.selectors[this].items] = <<>>],
               join(Items(h, this)))

Selector_stringify(h, this) == ReturnText(h, join(Items(h, this)))

\* the method named type, applied to this
Method(type, h, this, value) ==
    CASE type = "element" -> Selector_element(h, this, value)
      [] type = "id" -> Selector_id(h, this, value)
      [] type = "class" -> Selector_class(h, this, value)
      [] type = "attr" -> Selector_attr(h, this, value)
      [] type = "pseudoClass" -> Selector_pseudoClass(h, this, value)
      [] type = "pseudoElement" -> Selector_pseudoElement(h, this, value)

(* -------------------------- cssSelectorBuilder ------------------------- *)

\* (new Selector()).<type>(value)
Facade(type, h, value) ==
    LET n == constructor(h, Undefined) IN Method(type, n.heap, n.ret, value)

\* fault: the combinator is stored without the spaces around it
combine_unspaced(h, selector1, combinator, selector2) ==
    LET concat == Items(h, selector1)
                  \o <<[type |-> "combinator", value |-> combinator]>>
                  \o Items(h, selector2)
        h1 == [h EXCEPT !.arrays = Append(@, concat)]
    IN  constructor(h1, Len(h1.arrays))

\* fault: the fragments are pushed onto selector1.items, then copied
combine_inplace(h, selector1, combinator, selector2) ==
    LET concat == Items(h, selector1)
                  \o <<[type |-> "combinator", value |-> " " \o combinator \o " "]>>
                  \o Items(h, selector2)
        h1 == [h EXCEPT !.arrays[h.selectors[selector1].items] = concat]
        h2 == [h1 EXCEPT !.arrays = Append(@, concat)]
    IN  constructor(h2, Len(h2.arrays))

\* fault: the fragments are pushed onto selector1.items, which the result keeps
combine_aliasing(h, selector1, combinator, selector2) ==
    LET concat == Items(h, selector1)
                  \o <<[type |-> "combinator", value |-> " " \o combinator \o " "]>>
                  \o Items(h, selector2)
        h1 == [h EXCEPT !.arrays[h.selectors[selector1].items] = concat]
    IN  constructor(h1, h.selectors[selector1].items)

\* fault: the result takes over the used-flags of selector1
combine_keepsFlags(h, selector1, combinator, selector2) ==
    LET concat == Items(h, selector1)
                  \o <<[type |-> "combinator", value |-> " " \o combinator \o " "]>>
                  \o Items(h, selector2)
        h1 == [h EXCEPT !.arrays = Append(@, concat)]
        n == constructor(h1, Len(h1.arrays))
    IN  [n EXCEPT !.heap.selectors[n.ret].touched = h.selectors[selector1].touched]

\* cssSelectorBuilder.combine(selector1, combinator, selector2)
cssSelectorBuilder_combine(h, selector1, combinator, selector2) ==
    LET concat == Items(h, selector1)
                  \o <<[type |-> "combinator", value |-> " " \o combinator \o " "]>>
                  \o Items(h, selector2)
        h1 == [h EXCEPT !.arrays = Append(@, concat)]
    IN  constructor(h1, Len(h1.arrays))

\* cssSelectorBuilder.stringify(): the selector it makes is dropped on return
cssSelectorBuilder_stringify(h) ==
    LET n == constructor(h, Undefined)
    IN  ReturnText(h, Selector_stringify(n.heap, n.ret).text)

(* ------------------------------- actions ------------------------------- *)

Types == {"element", "id", "class", "attr", "pseudoClass", "pseudoElement"}

RECURSIVE Sum(_)
Sum(lens) == IF lens = <<>> THEN 0 ELSE lens[1] + Sum(Tail(lens))

Appends(hist) == Sum([s \in DOMAIN hist |-> Len(hist[s].calls)])

\* the step of a call that completes as c, leaving the log hist
Complete(B, c, call, hist) ==
    /\ DOMAIN c.heap.selectors \subseteq B.refs
    /\ Appends(hist) <= B.appends
    /\ arrays' = c.heap.arrays
    /\ selectors' = c.heap.selectors
    /\ history' = hist
    /\ last' = IF c.ret = 0
               THEN last
               ELSE [via |-> call.via, op |-> call.op, this |-> call.this,
                     value |-> call.value, other |-> call.other, ret |-> c.ret,
                     before |-> [arrays |-> arrays, selectors |-> selectors,
                                 history |-> history]]
    /\ UNCHANGED rectangleVars

\* the log of a selector just made: by the facade (from = <<>>) or by combine
Fresh(from, str) == [from |-> from, base |-> str, calls |-> <<>>]

Logged(hist, this, type, value, c) ==
    IF c.threw = NoError
    THEN [hist EXCEPT ![this].calls = Append(@, [type |-> type, value |-> value])]
    ELSE hist

\* selector.<type>(value) on a selector the caller holds
Call(B, type, this, value) ==
    \E c \in {Method(type, Heap, this, value)} :
        Complete(B, c, [via |-> "selector", op |-> type, this |-> this,
                        value |-> value, other |-> 0],
                 Logged(history, this, type, value, c))

\* cssSelectorBuilder.<type>(value)
Build(B, type, value) ==
    \E c \in {Facade(type, Heap, value)}, n \in {constructor(Heap, Undefined)} :
        Complete(B, c, [via |-> "builder", op |-> type, this |-> n.ret,
                        value |-> value, other |-> 0],
                 Logged(Append(history, Fresh(<<>>, "")), n.ret, type, value, c))

element(B) == \E this \in DOMAIN selectors, v \in B.values : Call(B, "element", this, v)
id(B) == \E this \in DOMAIN selectors, v \in B.values : Call(B, "id", this, v)
class(B) == \E this \in DOMAIN selectors, v \in B.values : Call(B, "class", this, v)
attr(B) == \E this \in DOMAIN selectors, v \in B.values : Call(B, "attr", this, v)
pseudoClass(B) ==
    \E this \in DOMAIN selectors, v \in B.values : Call(B, "pseudoClass", this, v)
pseudoElement(B) ==
    \E this \in DOMAIN selectors, v \in B.values : Call(B, "pseudoElement", this, v)

stringify(B) ==
    \E this \in DOMAIN selectors :
        Complete(B, Selector_stringify(Heap, this),
                 [via |-> "selector", op |-> "stringify", this |-> this,
                  value |-> "", other |-> 0],
                 history)

builder_element(B) == \E v \in B.values : Build(B, "element", v)
builder_id(B) == \E v \in B.values : Build(B, "id", v)
builder_class(B) == \E v \in B.values : Build(B, "class", v)
builder_attr(B) == \E v \in B.values : Build(B, "attr", v)
builder_pseudoClass(B) == \E v \in B.values : Build(B, "pseudoClass", v)
builder_pseudoElement(B) == \E v \in B.values : Build(B, "pseudoElement", v)

builder_stringify(B) ==
    Complete(B, cssSelectorBuilder_stringify(Heap),
             [via |-> "builder", op |-> "stringify", this |-> 0,
              value |-> "", other |-> 0],
             history)

builder_combine(B) ==
    \E selector1 \in DOMAIN selectors, selector2 \in DOMAIN selectors,
       combinator \in Combinators :
        \E c \in {cssSelectorBuilder_combine(Heap, selector1, combinator, selector2)} :
            Complete(B, c, [via |-> "builder", op |-> "combine", this |-> selector1,
                            value |-> combinator, other |-> selector2],
                     Append(history,
                            Fresh(<<selector1, selector2>>,
                                  Selector_stringify(c.heap, c.ret).text)))

Init ==
    /\ arrays = <<>>
    /\ selectors = <<>>
    /\ history = <<>>
    /\ last = [via |-> "", op |-> "", this |-> 0, value |-> "", other |-> 0,
               ret |-> 0,
               before |-> [arrays |-> <<>>, selectors |-> <<>>, history |-> <<>>]]
    /\ objects = <<>>
    /\ prototype = <<>>
    /\ created = <<>>

Step(B) ==
    \/ element(B) \/ id(B) \/ class(B) \/ attr(B) \/ pseudoClass(B) \/ pseudoElement(B)
    \/ stringify(B)
    \/ builder_element(B) \/ builder_id(B) \/ builder_class(B) \/ builder_attr(B)
    \/ builder_pseudoClass(B) \/ builder_pseudoElement(B)
    \/ builder_stringify(B) \/ builder_combine(B)

Next == Step(Main)
Spec == Init /\ [][Next]_vars

NextText == Step(Text)
SpecText == Init /\ [][NextText]_vars

(* ------------------- Rectangle, getJSON and fromJSON ------------------- *)

\* An object's properties are a sequence of <<key, value>> pairs with distinct
\* keys, in the order they were added.  A JSON text is the sequence of the
\* members written between its braces, each a <<key, value>> pair.

RectanglePrototype == "Rectangle.prototype"
TypeError == "TypeError: getArea is not a function"

Has(props, key) == \E i \in DOMAIN props : props[i][1] = key

Get(props, key) == props[CHOOSE i \in DOMAIN props : props[i][1] = key][2]

\* props[key] = value: an existing key keeps its place
Set(props, key, value) ==
    IF Has(props, key)
    THEN [i \in DOMAIN props |->
             IF props[i][1] = key THEN <<key, value>> ELSE props[i]]
    ELSE Append(props, <<key, value>>)

\* new Rectangle(width, height): the object it returns and the prototype it
\* leaves, whose getArea is a closure over this call's width and height
Rectangle(width, height) ==
    [object |-> [own |-> Set(Set(<<>>, "width", width), "height", height),
                 proto |-> RectanglePrototype],
     prototype |-> Set(prototype, "getArea",
                       [width |-> width, height |-> height])]

\* JSON.stringify(obj): the own properties, in their order
getJSON(obj) == obj.own

\* JSON.parse(json): the members in their order, a repeated key keeping its
\* first place and its last value
RECURSIVE parse(_)
parse(json) ==
    IF json = <<>> THEN <<>>
    ELSE Set(parse(SubSeq(json, 1, Len(json) - 1)),
             json[Len(json)][1], json[Len(json)][2])

\* Object.setPrototypeOf(JSON.parse(json), proto)
fromJSON(proto, json) == [own |-> parse(json), proto |-> proto]

\* obj.getArea(): the property is looked up on the object, then on its
\* prototype; calling a missing one throws, calling the closure multiplies
\* the width and height it has captured
getArea(obj, protoProps) ==
    IF obj.proto = RectanglePrototype /\ Has(protoProps, "getArea")
    THEN [threw |-> NoError,
          value |-> Get(protoProps, "getArea").width
                    * Get(protoProps, "getArea").height]
    ELSE [threw |-> TypeError, value |-> 0]

\* the JSON texts of an object with a width and a height, in either order
Jsons ==
    UNION {{<<<<"width", w>>, <<"height", h>>>>,
            <<<<"height", h>>, <<"width", w>>>>} : w \in Sides, h \in Sides}

new_Rectangle ==
    \E w \in Sides, h \in Sides :
        /\ Len(objects) < MaxObjects
        /\ objects' = Append(objects, Rectangle(w, h).object)
        /\ prototype' = Rectangle(w, h).prototype
        /\ created' = Append(created, [op |-> "Rectangle", width |-> w, height |-> h])
        /\ UNCHANGED builderVars

call_fromJSON ==
    \E json \in Jsons :
        /\ Len(objects) < MaxObjects
        /\ objects' = Append(objects, fromJSON(RectanglePrototype, json))
        /\ created' = Append(created, [op |-> "fromJSON", width |-> Get(json, "width"),
                                       height |-> Get(json, "height")])
        /\ UNCHANGED <<prototype, builderVars>>

\* obj.getArea() and getJSON(obj) read, and write nothing
call_getArea ==
    \E o \in DOMAIN objects :
        /\ getArea(objects[o], prototype).threw \in {NoError, TypeError}
        /\ UNCHANGED vars

call_getJSON ==
    \E o \in DOMAIN objects :
        /\ Len(getJSON(objects[o])) = Len(objects[o].own)
        /\ UNCHANGED vars

NextRectangle == new_Rectangle \/ call_fromJSON \/ call_getArea \/ call_getJSON
SpecRectangle == Init /\ [][NextRectangle]_vars

(* ------------------------ vocabulary of the claims --------------------- *)

\* the rank order as the specification states it
Rank == [element |-> 1, id |-> 2, class |-> 3, attr |-> 4,
         pseudoClass |-> 5, pseudoElement |-> 6]

Singletons == {"element", "id", "pseudoElement"}
Repeatable == {"class", "attr", "pseudoClass"}

IsFragment(item) == item.type # "combinator"

\* some non-combinator fragment of items has a rank strictly greater than K's
Higher(items, K) ==
    \E i \in DOMAIN items : IsFragment(items[i]) /\ Rank[items[i].type] > Rank[K]

\* kind K was successfully appended on this builder (by a call on it)
Appended(hist, this, K) ==
    \E i \in DOMAIN hist[this].calls : hist[this].calls[i].type = K

Combined(this) == history[this].from # <<>>

\* the last step was a successful append of kind last.op on builder last.this
Pushed == last.op \in Types

(* -------------------------------- C1 ----------------------------------- *)

\* C1: an append of kind K on any builder (combine results included) fails
\* when a non-combinator fragment of the builder has a rank greater than K's,
\* and succeeds, returning the builder, when there is none and K is not a
\* singleton kind already appended on it; combinators never count.  Every
\* append that did succeed found no fragment of greater rank.
C1_OrderCheck ==
    /\ \A this \in DOMAIN selectors, K \in Types, v \in Values :
           \E c \in {Method(K, Heap, this, v)} :
               /\ Higher(Items(Heap, this), K) => c.threw # NoError
               /\ (/\ ~Higher(Items(Heap, this), K)
                   /\ ~(K \in Singletons /\ Appended(history, this, K)))
                  => c.threw = NoError /\ c.ret = this
    /\ \A K \in Types, v \in Values : Facade(K, Heap, v).threw = NoError
    /\ (Pushed /\ last.via = "selector")
          => ~Higher(Items(last.before, last.this), last.op)

\* an append has succeeded on a combine result, behind its combinator, and a
\* fragment that came from an operand now makes an append of lower rank fail
C1_Witness ==
    /\ Pushed /\ last.via = "selector" /\ Combined(last.this)
    /\ \E K \in Types :
           /\ Higher(Items(last.before, last.this), K)
           /\ Method(K, Heap, last.this, "a").threw = OrderError

(* -------------------------------- C2 ----------------------------------- *)

\* C2: element, id and pseudoElement fail with the duplicate error on a
\* builder on which that kind was already appended, whatever was appended
\* since; class, attr and pseudoClass never fail with the duplicate error and
\* succeed when repeated with no fragment of greater rank present.
C2_Duplicate ==
    \A this \in DOMAIN selectors, v \in Values :
        /\ \A K \in Singletons :
               Appended(history, this, K)
                 => Method(K, Heap, this, v).threw = DuplicateError
        /\ \A K \in Repeatable :
               \E c \in {Method(K, Heap, this, v)} :
                   /\ c.threw # DuplicateError
                   /\ (Appended(history, this, K) /\ ~Higher(Items(Heap, this), K))
                      => c.threw = NoError

\* element was appended first, another kind after it, and element now fails
\* as a duplicate
C2_Witness ==
    /\ Pushed /\ last.op # "element"
    /\ Len(history[last.this].calls) >= 2
    /\ history[last.this].calls[1].type = "element"
    /\ Method("element", Heap, last.this, "a").threw = DuplicateError

(* -------------------------------- C3 ----------------------------------- *)

\* C3: an append that fails, with either error, leaves the whole heap as it
\* was: the fragments and the used-flags of its builder and of every other.
C3_FailureKeepsState ==
    \A this \in DOMAIN selectors, K \in Types, v \in Values :
        \E c \in {Method(K, Heap, this, v)} :
            c.threw # NoError
              => /\ c.heap = Heap
                 /\ c.ret = 0
                 /\ Selector_stringify(c.heap, this).text = Selector_stringify(Heap, this).text

\* a builder on which one append fails as a duplicate and another for the order
C3_Witness ==
    \E this \in DOMAIN selectors :
        /\ Method("id", Heap, this, "a").threw = DuplicateError
        /\ Method("element", Heap, this, "a").threw = OrderError

(* -------------------------------- C4 ----------------------------------- *)

\* the non-combinator fragments of a builder, left to right
Fragments(this) == SelectSeq(Items(Heap, this), IsFragment)

NonDecreasing(frags) ==
    \A i, j \in DOMAIN frags : i < j => Rank[frags[i].type] <= Rank[frags[j].type]

\* no combinator stands between positions i and j of items
SameRun(items, i, j) == \A k \in i..j : IsFragment(items[k])

\* C4 as stated: in every builder, combine results included, the kinds of
\* the non-combinator fragments are non-decreasing in rank from left to right.
C4_AllNonDecreasing ==
    \A this \in DOMAIN selectors : NonDecreasing(Fragments(this))

\* C4 as amended: in every builder the kinds are non-decreasing in rank
\* within each run of fragments between combinators; a builder that is not a
\* combine result holds no combinator, so its whole sequence is non-decreasing.
C4_RunsNonDecreasing ==
    \A this \in DOMAIN selectors :
        /\ \A i, j \in DOMAIN Items(Heap, this) :
               (i < j /\ SameRun(Items(Heap, this), i, j))
                 => Rank[Items(Heap, this)[i].type] <= Rank[Items(Heap, this)[j].type]
        /\ ~Combined(this)
             => /\ Fragments(this) = Items(Heap, this)
                /\ NonDecreasing(Fragments(this))

\* a combine result whose ranks fall across its combinator, appended to since
C4_Witness ==
    /\ Pushed /\ last.via = "selector" /\ Combined(last.this)
    /\ ~NonDecreasing(Fragments(last.this))

(* -------------------------------- C5 ----------------------------------- *)

Count(items, K) == Cardinality({i \in DOMAIN items : items[i].type = K})

\* the fragments a builder held when it was made
Made(this) ==
    SubSeq(Items(Heap, this), 1,
           Len(Items(Heap, this)) - Len(history[this].calls))

\* C5 as stated: every builder, combine results included, holds at most one
\* element, one id and one pseudoElement fragment.
C5_SingletonsOnce ==
    \A this \in DOMAIN selectors, K \in Singletons :
        Count(Items(Heap, this), K) <= 1

\* C5 as amended: every builder that is not a combine result holds at most
\* one element, one id and one pseudoElement fragment; a combine result holds
\* at most one more of each than the fragments it was made from.
C5_SingletonsOncePerBuilder ==
    \A this \in DOMAIN selectors, K \in Singletons :
        /\ ~Combined(this) => Count(Items(Heap, this), K) <= 1
        /\ Count(Items(Heap, this), K) <= Count(Made(this), K) + 1

\* a builder made by the facade that holds all three singleton kinds
C5_Witness ==
    /\ Pushed /\ ~Combined(last.this)
    /\ \A K \in Singletons : Count(Items(Heap, last.this), K) = 1

(* -------------------------------- C6 ----------------------------------- *)

\* C6: in a builder made by the facade and chained appends (never a combine
\* result) the kinds stand in the order element, id, class, attr, pseudoClass,
\* pseudoElement, only class, attr and pseudoClass standing more than once;
\* and those three may always be repeated at their stage: called again on a
\* builder whose last fragment is of the same kind, they succeed.
C6_FixedOrder ==
    \A this \in DOMAIN selectors :
        ~Combined(this)
          => /\ \A i, j \in DOMAIN Items(Heap, this) :
                    i < j
                      => \/ Rank[Items(Heap, this)[i].type]
                              < Rank[Items(Heap, this)[j].type]
                         \/ /\ Items(Heap, this)[i].type = Items(Heap, this)[j].type
                            /\ Items(Heap, this)[i].type \in Repeatable
             /\ \A K \in Repeatable, v \in Values :
                    (/\ Items(Heap, this) # <<>>
                     /\ Items(Heap, this)[Len(Items(Heap, this))].type = K)
                      => Method(K, Heap, this, v).threw = NoError

\* a facade-made builder on which a repeatable kind has just been repeated
C6_Witness ==
    /\ Pushed /\ last.via = "selector" /\ ~Combined(last.this)
    /\ last.op \in Repeatable
    /\ Len(Items(Heap, last.this)) >= 3
    /\ Items(Heap, last.this)[Len(Items(Heap, last.this)) - 1].type = last.op

(* -------------------------------- C7 ----------------------------------- *)

\* the text the specification gives a fragment of kind K and value v
Formatted(K, v) ==
    CASE K = "element" -> v
      [] K = "id" -> "#" \o v
      [] K = "class" -> "." \o v
      [] K = "attr" -> "[" \o v \o "]"
      [] K = "pseudoClass" -> ":" \o v
      [] K = "pseudoElement" -> "::" \o v

RECURSIVE Concatenated(_)
Concatenated(calls) ==
    IF calls = <<>> THEN ""
    ELSE Formatted(calls[1].type, calls[1].value) \o Concatenated(Tail(calls))

\* C7: stringify() returns the text the builder was made with (empty for a
\* builder made by the facade) followed by the formatted texts of the appends
\* that succeeded on it, in call order and with no separator; an append that
\* failed adds nothing.
C7_StringifyConcatenates ==
    /\ \A this \in DOMAIN selectors :
           \E c \in {Selector_stringify(Heap, this)} :
               /\ c.threw = NoError
               /\ c.text = history[this].base \o Concatenated(history[this].calls)
               /\ ~Combined(this) => history[this].base = ""
    /\ \A this \in DOMAIN selectors, K \in Types, v \in TextValues :
           \E c \in {Method(K, Heap, this, v)} :
               c.threw # NoError
                 => Selector_stringify(c.heap, this).text
                      = history[this].base \o Concatenated(history[this].calls)

\* id('a').class('a').class('b'), the shape of the documented example
\* '#main.container.editable', on which element('a') fails
C7_Witness ==
    /\ Pushed /\ ~Combined(last.this)
    /\ history[last.this].calls
         = <<[type |-> "id", value |-> "a"], [type |-> "class", value |-> "a"],
             [type |-> "class", value |-> "b"]>>
    /\ Selector_stringify(Heap, last.this).text = "#a.a.b"
    /\ Method("element", Heap, last.this, "b").threw = OrderError

(* -------------------------------- C8 ----------------------------------- *)

\* the last step was a call of combine
Joined == last.op = "combine"

\* C8: combine(A, token, B) returns a new builder, other than A and B and
\* with an array of its own, that holds A's fragments, then one combinator
\* fragment of text ' ' + token + ' ', then B's fragments; its stringify()
\* is A.stringify() + ' ' + token + ' ' + B.stringify().  A and B may
\* themselves be combine results.
C8_CombineConcatenates ==
    Joined
      => /\ last.ret = Len(last.before.selectors) + 1
         /\ DOMAIN selectors = 1..last.ret
         /\ last.ret \notin {last.this, last.other}
         /\ \A s \in DOMAIN last.before.selectors :
                selectors[last.ret].items # last.before.selectors[s].items
         /\ Items(Heap, last.ret)
              = Items(last.before, last.this)
                \o <<[type |-> "combinator", value |-> " " \o last.value \o " "]>>
                \o Items(last.before, last.other)
         /\ Selector_stringify(Heap, last.ret).text
              = Selector_stringify(last.before, last.this).text
                \o " " \o last.value \o " "
                \o Selector_stringify(last.before, last.other).text

\* a combination whose left operand is itself a combine result
C8_Witness ==
    /\ Joined
    /\ last.before.history[last.this].from # <<>>
    /\ last.this # last.other

(* -------------------------------- C9 ----------------------------------- *)

\* C9: combine(a, token, b) leaves every builder that existed before the
\* call, a and b among them, with the same used-flags, the same array and the
\* same fragments in it, so with the same stringify() output; also when a
\* and b are the same builder.
C9_CombineKeepsOperands ==
    Joined
      => \A s \in DOMAIN last.before.selectors :
             /\ selectors[s] = last.before.selectors[s]
             /\ Items(Heap, s) = Items(last.before, s)
             /\ Selector_stringify(Heap, s).text = Selector_stringify(last.before, s).text

\* a builder that holds fragments and flags was combined with itself
C9_Witness ==
    /\ Joined /\ last.this = last.other
    /\ Len(Items(last.before, last.this)) >= 2
    /\ selectors[last.this].touched.element

(* -------------------------------- C10 ---------------------------------- *)

\* builder x is an operand of the combine result c
OperandOf(x, c) ==
    \E i \in DOMAIN history[c].from : history[c].from[i] = x

\* builder t holds now what it held before the last step
Kept(t) ==
    /\ selectors[t] = last.before.selectors[t]
    /\ Items(Heap, t) = Items(last.before, t)
    /\ Selector_stringify(Heap, t).text = Selector_stringify(last.before, t).text

\* C10: a combine result shares no array with its operands: a successful
\* append on an operand leaves every combine result made from it as it was,
\* and a successful append on a combine result leaves its operands as they
\* were.
C10_CombineDoesNotAlias ==
    /\ \A c \in DOMAIN selectors, x \in DOMAIN selectors :
           OperandOf(x, c) => selectors[c].items # selectors[x].items
    /\ (Pushed /\ last.via = "selector")
          => \A c \in DOMAIN last.before.selectors, x \in DOMAIN last.before.selectors :
                 OperandOf(x, c)
                   => /\ last.this = x => Kept(c)
                      /\ last.this = c => Kept(x)

\* an append has succeeded on an operand of an earlier combination
C10_Witness ==
    /\ Pushed /\ last.via = "selector"
    /\ \E c \in DOMAIN last.before.selectors :
           /\ OperandOf(last.this, c)
           /\ Len(Items(Heap, last.this)) = Len(Items(last.before, last.this)) + 1
           /\ Kept(c)

(* ---------------------------------- C11 --------------------------------- *)

Untouched == [element |-> FALSE, id |-> FALSE, pseudoElement |-> FALSE]

\* C11: combine never fails and checks neither order nor duplicates: whatever
\* its operands hold, it returns a builder whose three used-flags are clear,
\* so that element, id and pseudoElement, until first appended on that
\* builder, are never rejected there as duplicates.
C11_CombineClearsFlags ==
    /\ \A a \in DOMAIN selectors, b \in DOMAIN selectors, token \in Combinators :
           \E c \in {cssSelectorBuilder_combine(Heap, a, token, b)} :
               /\ c.threw = NoError
               /\ c.ret \in DOMAIN c.heap.selectors
               /\ c.heap.selectors[c.ret].touched = Untouched
    /\ Joined => selectors[last.ret].touched = Untouched
    /\ \A this \in DOMAIN selectors, K \in Singletons, v \in Values :
           Combined(this) /\ ~Appended(history, this, K)
               => Method(K, Heap, this, v).threw # DuplicateError

\* a combine of operands that both had element appended, on whose result
\* element is then appended
C11_Witness ==
    /\ Pushed /\ last.op = "element" /\ Combined(last.this)
    /\ \A i \in DOMAIN history[last.this].from :
           selectors[history[last.this].from[i]].touched.element
    /\ Count(Made(last.this), "element") = 2

(* ---------------------------------- C12 --------------------------------- *)

\* the positions of items before its first combinator, and those after it
LeftOf(items) ==
    {i \in DOMAIN items : \A j \in 1..i : IsFragment(items[j])}

RightOf(items) == {i \in DOMAIN items : IsFragment(items[i])} \ LeftOf(items)

\* C12: on a combine result an append of kind K is checked against every
\* non-combinator fragment of the whole sequence: it fails with the order
\* error whenever a fragment that came from either operand, one of the left
\* operand before the combinator included, has a rank greater than K's; it
\* fails whenever any fragment has, and is not rejected by the order check
\* when none has.
C12_WholeSequenceChecked ==
    \A this \in DOMAIN selectors, K \in Types, v \in Values :
        Combined(this) =>
            \E c \in {Method(K, Heap, this, v)}, items \in {Items(Heap, this)} :
                /\ checkOrder(Heap, this, K) = OrderError <=> Higher(items, K)
                /\ Higher(Made(this), K) => c.threw = OrderError /\ c.heap = Heap
                /\ (\E i \in LeftOf(items) : Rank[items[i].type] > Rank[K])
                       => c.threw = OrderError
                /\ Higher(items, K) => c.threw # NoError
                /\ ~Higher(items, K) => c.threw # OrderError

\* a combine result on which some kind is rejected because of a fragment of
\* the left operand alone: nothing after the combinator outranks it
C12_Witness ==
    /\ Joined
    /\ \E K \in Types, v \in Values, items \in {Items(Heap, last.ret)} :
           /\ \E i \in LeftOf(items) : Rank[items[i].type] > Rank[K]
           /\ \A i \in RightOf(items) : Rank[items[i].type] <= Rank[K]
           /\ RightOf(items) # {}
           /\ Method(K, Heap, last.ret, v).threw = OrderError

(* ---------------------------------- C13 --------------------------------- *)

Constructed == {o \in DOMAIN objects : created[o].op = "Rectangle"}

Parsed == {o \in DOMAIN objects : created[o].op = "fromJSON"}

\* C13: every object made by new Rectangle(w, h) has width w and height h, and
\* its getArea() returns w * h, whatever rectangles were constructed before or
\* after it.
C13_OwnArea ==
    \A r \in Constructed :
        /\ Get(objects[r].own, "width") = created[r].width
        /\ Get(objects[r].own, "height") = created[r].height
        /\ getArea(objects[r], prototype).threw = NoError
        /\ getArea(objects[r], prototype).value = created[r].width * created[r].height

(* ---------------------------------- C14 --------------------------------- *)

\* C14: every object returned by fromJSON(Rectangle.prototype, json), for a
\* json text with width w and height h, has width w and height h, and its
\* getArea() is there and returns w * h, however many rectangles (none
\* included) were constructed before the call.
C14_ParsedArea ==
    \A r \in Parsed :
        /\ Get(objects[r].own, "width") = created[r].width
        /\ Get(objects[r].own, "height") = created[r].height
        /\ getArea(objects[r], prototype).threw = NoError
        /\ getArea(objects[r], prototype).value = created[r].width * created[r].height

(* ---------------------------------- C15 --------------------------------- *)

\* C15: stringify() leaves the builder it is called on as it was, fragments
\* and used-flags; called again with no append in between it returns the same
\* string; and every append made after it has the outcome it would have had
\* without it.
C15_StringifyReadsOnly ==
    \A this \in DOMAIN selectors :
        \E c \in {Selector_stringify(Heap, this)} :
            /\ c.threw = NoError
            /\ c.heap.selectors = selectors
            /\ c.heap.arrays = arrays
            /\ \E again \in {Selector_stringify(c.heap, this)} :
                   /\ again.text = c.text
                   /\ Selector_stringify(again.heap, this).text = c.text
            /\ \A K \in Types, v \in Values :
                   Method(K, c.heap, this, v) = Method(K, Heap, this, v)

\* a builder holding fragments, whose stringify() is not empty, on which one
\* later append succeeds and another fails
C15_Witness ==
    \E this \in DOMAIN selectors :
        \E c \in {Selector_stringify(Heap, this)} :
            /\ Len(Items(Heap, this)) >= 2
            /\ c.text # ""
            /\ \E K \in Types, v \in Values :
                   Method(K, c.heap, this, v).threw = NoError
            /\ \E K \in Types, v \in Values :
                   Method(K, c.heap, this, v).threw # NoError

(* ---------------------------------- C16 --------------------------------- *)

\* builder t is in heap h what it is now, to look at and to append to
Same(h, t) ==
    /\ h.selectors[t] = selectors[t]
    /\ Items(h, t) = Items(Heap, t)
    /\ \A K \in Types, v \in Values :
           Method(K, h, t, v).threw = Method(K, Heap, t, v).threw

\* C16: every facade entry point works on a fresh, empty builder that shares
\* nothing with the builders made before: the facade's stringify() returns
\* the empty string, a facade append K(v) returns a new builder holding the
\* one fragment of K(v) and leaves every other builder alone, and an append
\* on a facade-made builder, whether it succeeds or fails, leaves every
\* other builder its fragments, its used-flags and its errors.
C16_FacadeStartsFresh ==
    /\ cssSelectorBuilder_stringify(Heap).text = ""
    /\ cssSelectorBuilder_stringify(Heap).threw = NoError
    /\ cssSelectorBuilder_stringify(Heap).heap = Heap
    /\ \A K \in Types, v \in Values :
           \E c \in {Facade(K, Heap, v)} :
               /\ c.threw = NoError
               /\ c.ret \in DOMAIN c.heap.selectors \ DOMAIN selectors
               /\ Items(c.heap, c.ret) = <<[type |-> K, value |-> Formatted(K, v)]>>
               /\ \A K2 \in Singletons :
                      c.heap.selectors[c.ret].touched[K2] <=> K2 = K
               /\ \A t \in DOMAIN selectors :
                      /\ c.heap.selectors[c.ret].items # selectors[t].items
                      /\ Same(c.heap, t)
    /\ \A this \in DOMAIN selectors, t \in DOMAIN selectors :
           this # t /\ ~Combined(this) /\ ~Combined(t)
               => /\ selectors[this].items # selectors[t].items
                  /\ \A K \in Types, v \in Values :
                         Same(Method(K, Heap, this, v).heap, t)
    /\ Pushed /\ ~Combined(last.this)
           => \A t \in DOMAIN last.before.selectors \ {last.this} :
                  ~Combined(t) => Kept(t)

\* two facade-made builders holding fragments, the second just appended to
\* and now refusing a kind that the first still accepts
C16_Witness ==
    /\ Pushed /\ last.via = "selector" /\ ~Combined(last.this)
    /\ \E t \in DOMAIN last.before.selectors \ {last.this}, K \in Types, v \in Values :
           /\ ~Combined(t)
           /\ Items(Heap, t) # <<>>
           /\ Method(K, Heap, last.this, v).threw # NoError
           /\ Method(K, Heap, t, v).threw = NoError

(* ---------------------------------- C17 --------------------------------- *)

\* the last fragment of items has a rank strictly greater than K's
LastHigher(items, K) ==
    items # <<>> /\ Rank[items[Len(items)].type] > Rank[K]

\* the last-fragment-only builder: its state, and one append on it
Empty == [items |-> <<>>, touched |-> Untouched]

LastOnly(b, K, v) ==
    IF K \in Singletons /\ b.touched[K] THEN [b |-> b, threw |-> DuplicateError]
    ELSE IF LastHigher(b.items, K) THEN [b |-> b, threw |-> OrderError]
    ELSE [b |-> [items |-> Append(b.items, [type |-> K, value |-> Formatted(K, v)]),
                 touched |-> IF K \in Singletons
                             THEN [b.touched EXCEPT ![K] = TRUE]
                             ELSE b.touched],
          threw |-> NoError]

\* the last-fragment-only builder after the calls, all of them accepted
RECURSIVE LastOnlyRun(_)
LastOnlyRun(calls) ==
    IF calls = <<>> THEN [b |-> Empty, accepted |-> TRUE]
    ELSE LET before == LastOnlyRun(SubSeq(calls, 1, Len(calls) - 1))
             step == LastOnly(before.b, calls[Len(calls)].type, calls[Len(calls)].value)
         IN  [b |-> step.b, accepted |-> before.accepted /\ step.threw = NoError]

\* C17: on a builder that is not a combine result the scan of all fragments
\* decides as a look at the last one would: the order check rejects kind K
\* exactly when the builder is not empty and its last fragment outranks K.
\* A last-fragment-only builder given the same calls has accepted the same
\* ones, holds the same fragments and flags, and answers every next call
\* alike.
C17_LastFragmentSuffices ==
    \A this \in DOMAIN selectors :
        ~Combined(this) =>
            \E run \in {LastOnlyRun(history[this].calls)} :
                /\ run.accepted
                /\ run.b.items = Items(Heap, this)
                /\ run.b.touched = selectors[this].touched
                /\ \A K \in Types :
                       checkOrder(Heap, this, K) = OrderError
                           <=> LastHigher(Items(Heap, this), K)
                /\ \A K \in Types, v \in Values :
                       \E c \in {Method(K, Heap, this, v)}, l \in {LastOnly(run.b, K, v)} :
                           /\ c.threw = l.threw
                           /\ Items(c.heap, this) = l.b.items
                           /\ c.heap.selectors[this].touched = l.b.touched

\* a builder made by appends alone whose first fragment ranks below a kind
\* that its last fragment outranks: the call is rejected on the last
\* fragment's account
C17_Witness ==
    /\ Pushed /\ ~Combined(last.this)
    /\ \E K \in Types, v \in Values, items \in {Items(Heap, last.this)} :
           /\ Len(items) >= 2
           /\ Rank[items[1].type] < Rank[K]
           /\ LastHigher(items, K)
           /\ Method(K, Heap, last.this, v).threw = OrderError

(* ---------------------------------- C18 --------------------------------- *)

\* C18: on a builder that is not a combine result each of the three
\* used-flags is set exactly when the builder holds a fragment of that kind,
\* and it then holds exactly one.  On every builder, a combine result
\* included, a flag is set exactly when that kind was appended on the builder
\* itself, whatever fragments it was made from.
C18_FlagsFollowAppends ==
    \A this \in DOMAIN selectors, K \in Singletons :
        /\ selectors[this].touched[K] <=> Appended(history, this, K)
        /\ ~Combined(this) =>
               /\ selectors[this].touched[K] <=> Count(Items(Heap, this), K) >= 1
               /\ selectors[this].touched[K] => Count(Items(Heap, this), K) = 1
        /\ Combined(this) =>
               (selectors[this].touched[K]
                   <=> Count(Items(Heap, this), K) = Count(Made(this), K) + 1)

\* a combine result that holds an element fragment under a clear element
\* flag and an id fragment under a set id flag, beside an operand whose
\* element flag is set
C18_Witness ==
    \E this \in DOMAIN selectors :
        /\ Combined(this)
        /\ ~selectors[this].touched.element
        /\ Count(Items(Heap, this), "element") >= 1
        /\ selectors[this].touched.id
        /\ \E t \in DOMAIN selectors :
               /\ OperandOf(t, this)
               /\ selectors[t].touched.element
               /\ Count(Items(Heap, t), "element") = 1

(* ---------------------------------- C19 --------------------------------- *)

\* C19: a call of element, id or pseudoElement that breaks both rules, its
\* kind having been appended on the builder and a fragment of greater rank
\* being present, fails with the duplicate error; the order error is given
\* only to a call whose kind has its used-flag clear.
C19_DuplicateFirst ==
    \A this \in DOMAIN selectors, K \in Singletons, v \in Values :
        \E c \in {Method(K, Heap, this, v)} :
            /\ Appended(history, this, K) /\ Higher(Items(Heap, this), K)
                   => c.threw = DuplicateError /\ c.heap = Heap
            /\ c.threw = OrderError
                   => /\ ~selectors[this].touched[K]
                      /\ ~Appended(history, this, K)
                      /\ Higher(Items(Heap, this), K)

\* a builder on which a singleton kind was appended and then a kind of
\* greater rank: the singleton again fails as a duplicate, while another
\* singleton, not yet appended, fails on the order
C19_Witness ==
    /\ Pushed /\ last.via = "selector"
    /\ \E K \in Singletons, K2 \in Singletons, v \in Values :
           /\ Appended(last.before.history, last.this, K)
           /\ Rank[last.op] > Rank[K]
           /\ Method(K, Heap, last.this, v).threw = DuplicateError
           /\ ~Appended(history, last.this, K2)
           /\ Method(K2, Heap, last.this, v).threw = OrderError

====
